---- MODULE Spec2Model ----
(***************************************************************************)
(* Model of the tensor engine of src/src/tensor.hpp: NTensor (owning       *)
(* tensor: shape, row-major stride, flat buffer), VTensor (non-owning      *)
(* rectangular view), the elementwise add/sub, the direct matrix product   *)
(* static_matmul and the recursive strassen_matmul with its split/stack.   *)
(*                                                                         *)
(* A tensor is a record; its buffer data_ is a sequence, flat offset f     *)
(* being data[f + 1].  Every public method is one action that performs the *)
(* whole call; the pure computation of each method is an operator that     *)
(* follows the statements of the source.                                   *)
(***************************************************************************)
EXTENDS Integers, Sequences, FiniteSets, TLC

VARIABLES
    A,        \* the tensor the methods are called on (*this)
    B,        \* the other operand of binary operations
    res,      \* what the last call did (method, arguments, outcome, result)
    halted    \* the process has exited (log_fatal) or crashed

vars == <<A, B, res, halted>>

(***************************************************************************)
(* Bounds of the model.                                                    *)
(***************************************************************************)
MaxRank == 3        \* ranks 1..MaxRank in the indexing specification
MaxExt == 4         \* extents 1..MaxExt in the indexing specification
MaxSize == 16       \* element counts up to MaxSize in the indexing specification
MaxVal == 2         \* element values written: 1..MaxVal (tensors are filled with 0)

(***************************************************************************)
(* Shape/stride arithmetic.                                                *)
(***************************************************************************)
\* The contents of a buffer of n elements, element f - 1 being e[f], as a sequence.
Vec(e, n) == SubSeq(e, 1, n)

\* The element of a one-element set: Only({e(x) : x \in {v}}) is e(v), with v
\* evaluated once.
Only(S) == CHOOSE x \in S : TRUE

RECURSIVE ProdFrom(_, _)
ProdFrom(s, i) == IF i > Len(s) THEN 1 ELSE s[i] * ProdFrom(s, i + 1)

\* calculate_size: size_ starts at 1 and is multiplied by every extent.
calculate_size(shape) == ProdFrom(shape, 1)

\* A slip in calculate_stride: the extent of the dimension itself, shape_[i],
\* multiplied in instead of shape_[i+1].
calculate_stride_own_extent(shape) ==
    [i \in 1..Len(shape) |->
        IF i = Len(shape) THEN 1 ELSE shape[i] * ProdFrom(shape, i + 2)]

\* calculate_stride: stride_[ndim-1] = 1; stride_[i] = shape_[i+1] * stride_[i+1].
\* (1-based here: stride[i] is the product of the extents after position i.)
calculate_stride(shape) == [i \in 1..Len(shape) |-> ProdFrom(shape, i + 1)]

\* struct NTensorConfig
NTensorConfig(threshold) == [strassen_threshold |-> threshold]

\* NTensor(shape, fill, cfg): the constructor.
NTensor(shape, fill, cfg) ==
    LET size == calculate_size(shape) IN
    [ shape  |-> shape,
      stride |-> calculate_stride(shape),
      size   |-> size,
      ndim   |-> Len(shape),
      data   |-> Vec([f \in 1..size |-> fill], size),
      config |-> cfg ]

RECURSIVE FlatFrom(_, _, _)
FlatFrom(stride, pos, i) ==
    IF i > Len(pos) THEN 0 ELSE pos[i] * stride[i] + FlatFrom(stride, pos, i + 1)

\* The loop of NTensor::index: flat_pos += p * stride_[i] for every p of pos.
flat_pos(t, pos) == FlatFrom(t.stride, pos, 1)

\* NTensor::index: the two fatal exits, else the flat offset of the element.
index(t, pos) ==
    IF Len(pos) # t.ndim THEN [status |-> "fatal_rank", off |-> 0]
    ELSE IF flat_pos(t, pos) >= t.size THEN [status |-> "fatal_bounds", off |-> 0]
    ELSE [status |-> "ok", off |-> flat_pos(t, pos)]

(***************************************************************************)
(* Views.  A VTensor holds a pointer into its parent's buffer (here: the   *)
(* flat offset `base` of its first element), the parent's two strides and  *)
(* its own extents.                                                        *)
(***************************************************************************)

\* A slip in slice: the two strides exchanged in the view's base offset.
slice_swapped_base(t, s1, a, b, c, d) ==
    [ base   |-> a * s1 + c * t.stride[1],
      size   |-> (b - a) * (d - c),
      stride |-> <<t.stride[1], s1>>,
      shape  |-> <<b - a, d - c>>,
      ndim   |-> 2 ]

\* NTensor::slice(a, b, c, d) of a tensor of rank <= 2; s1 is the value read
\* as stride_[1] (the tensor's own for rank 2).
slice(t, s1, a, b, c, d) ==
    [ base   |-> a * t.stride[1] + c * s1,
      size   |-> (b - a) * (d - c),
      stride |-> <<t.stride[1], s1>>,
      shape  |-> <<b - a, d - c>>,
      ndim   |-> 2 ]

\* VTensor::index(i, j): the offset, from the start of the parent's buffer,
\* of data_[i * stride_[0] + j * stride_[1]].
vindex(v, i, j) == v.base + i * v.stride[1] + j * v.stride[2]

(***************************************************************************)
(* Specification SpecIndex: one tensor, built by the constructor, and one  *)
(* element write, through NTensor::index or through a view made by slice.  *)
(***************************************************************************)
RECURSIVE SeqsOver(_, _)
SeqsOver(S, n) ==
    IF n = 0 THEN {<<>>}
    ELSE {Append(q, e) : q \in SeqsOver(S, n - 1), e \in S}

Shapes ==
    {sh \in UNION {SeqsOver(1..MaxExt, n) : n \in 1..MaxRank} :
        calculate_size(sh) <= MaxSize}

\* Coordinates offered to index(): every p[i] in 0..shape[i] (so one past the end
\* in any dimension), and the same with one coordinate missing or one added.
Coords(shape) ==
    LET full == {p \in SeqsOver(0..MaxExt, Len(shape)) :
                    \A i \in 1..Len(shape) : p[i] <= shape[i]}
    IN  full \cup {SubSeq(p, 1, Len(p) - 1) : p \in full} \cup {Append(p, 0) : p \in full}

NoCall == [op |-> "none", args |-> <<>>, x |-> 0, status |-> "none", before |-> <<>>]

InitIndex ==
    /\ \E shape \in Shapes : A = NTensor(shape, 0, NTensorConfig(0))
    /\ B = A
    /\ res = NoCall
    /\ halted = FALSE

\* client: t.index(pos) = x
IndexWrite ==
    /\ res.op = "none"
    /\ \E pos \in Coords(A.shape), x \in 1..MaxVal :
        LET r == index(A, pos) IN
        /\ res' = [op |-> "index_write", args |-> pos, x |-> x,
                    status |-> r.status, before |-> A.data]
        /\ IF r.status = "ok"
           THEN A' = [A EXCEPT !.data[r.off + 1] = x] /\ halted' = FALSE
           ELSE A' = A /\ halted' = TRUE          \* log_fatal: std::exit
    /\ UNCHANGED B

\* client: v = t.slice(r0, r1, c0, c1); v.index(i, j) = x
ViewWrite ==
    /\ res.op = "none"
    /\ \E r0 \in 0..MaxExt, r1 \in 0..MaxExt + 1, c0 \in 0..MaxExt, c1 \in 0..MaxExt + 1 :
        /\ r0 <= r1 /\ r1 <= A.shape[1] + 1
        /\ c0 <= c1 /\ c1 <= (IF A.ndim >= 2 THEN A.shape[2] ELSE 1) + 1
        /\ IF A.ndim > 2
           THEN \* slice throws std::runtime_error; nothing is written
                /\ res' = [op |-> "view_write", args |-> <<r0, r1, c0, c1>>,
                            x |-> 0, status |-> "runtime_error", before |-> A.data]
                /\ A' = A /\ halted' = TRUE
           ELSE \E i \in 0..MaxExt, j \in 0..MaxExt, x \in 1..MaxVal,
                   s1 \in (IF A.ndim = 2 THEN {A.stride[2]} ELSE 0..MaxExt) :
                \* rank 1: stride_[1] is read past the end of stride_
                /\ i < r1 - r0 /\ j < c1 - c0
                /\ LET v   == slice(A, s1, r0, r1, c0, c1)
                       off == vindex(v, i, j)
                   IN  IF off < A.size
                       THEN /\ res' = [op |-> "view_write",
                                       args |-> <<r0, r1, c0, c1, i, j>>, x |-> x,
                                       status |-> "ok", before |-> A.data]
                            /\ A' = [A EXCEPT !.data[off + 1] = x]
                            /\ halted' = FALSE
                       ELSE \* a write outside the parent's buffer: the process
                            \* crashes, or goes on with the tensor as it was
                            /\ res' = [op |-> "view_write",
                                       args |-> <<r0, r1, c0, c1, i, j>>, x |-> x,
                                       status |-> "oob_write", before |-> A.data]
                            /\ A' = A
                            /\ halted' \in BOOLEAN
    /\ UNCHANGED B

NextIndex == IndexWrite \/ ViewWrite

SpecIndex == InitIndex /\ [][NextIndex]_vars

(***************************************************************************)
(* Elementwise arithmetic on owning tensors.                               *)
(***************************************************************************)
NoTensor ==
    [shape |-> <<>>, stride |-> <<>>, size |-> 0, ndim |-> 0, data |-> <<>>,
     config |-> NTensorConfig(0)]

\* A slip in check_size_eq: the element counts compared, as its name suggests.
check_size_eq_by_count(a, t) == a.size = t.size

\* check_size_eq: despite its name it compares the shape vectors; TRUE when it
\* returns, FALSE when it throws std::runtime_error.
check_size_eq(a, t) == a.shape = t.shape

\* NTensor::add(const NTensor&)
add(a, t) ==
    IF ~check_size_eq(a, t) THEN [status |-> "runtime_error", t |-> NoTensor]
    ELSE [status |-> "ok",
          t |-> [NTensor(a.shape, 0, a.config) EXCEPT
                    !.data = Vec([f \in 1..a.size |-> a.data[f] + t.data[f]], a.size)]]

\* NTensor::sub(NTensor&)
sub(a, t) ==
    IF ~check_size_eq(a, t) THEN [status |-> "runtime_error", t |-> NoTensor]
    ELSE [status |-> "ok",
          t |-> [NTensor(a.shape, 0, a.config) EXCEPT
                    !.data = Vec([f \in 1..a.size |-> a.data[f] - t.data[f]], a.size)]]

(***************************************************************************)
(* Reads the language leaves undefined.  ub = [keep, junk] is the outcome  *)
(* chosen for a call: a read past the end of a buffer gives ub.junk; a     *)
(* read through a view whose buffer has been freed gives the value the     *)
(* buffer held (ub.keep) or ub.junk.                                       *)
(***************************************************************************)
VecRead(data, f, ub) == IF f < Len(data) THEN data[f + 1] ELSE ub.junk

\* A view as the matmul engine holds it: the VTensor, the contents of the buffer
\* it points into, and whether the tensor owning that buffer still exists.
ViewOf(t, alive, a, b, c, d) ==
    [v |-> slice(t, t.stride[2], a, b, c, d), buf |-> t.data, alive |-> alive]

\* The value of view.index(i, j) when read.
VRead(view, i, j, ub) ==
    LET off == vindex(view.v, i, j) IN
    IF view.alive \/ ub.keep THEN VecRead(view.buf, off, ub) ELSE ub.junk

\* Whether view.index(i, j) lies outside the buffer the view points into.
VOut(view, i, j) == vindex(view.v, i, j) >= Len(view.buf)

(***************************************************************************)
(* The direct kernel.                                                      *)
(***************************************************************************)
RECURSIVE static_dot(_, _, _, _, _, _, _)
\* The innermost loop of static_matmul from i on: val += data_[col_off + i] *
\* t.data_[(i * cols) + col] for i < shape_[0].
static_dot(a, t, cols, row, col, i, ub) ==
    IF i >= a.shape[1] THEN 0
    ELSE VecRead(a.data, cols * row + i, ub) * VecRead(t.data, i * cols + col, ub)
            + static_dot(a, t, cols, row, col, i + 1, ub)

\* NTensor::static_matmul(t), called on a.
static_matmul(a, t, ub) ==
    LET rows == a.shape[2]
        cols == t.shape[1]
        out  == NTensor(<<rows, cols>>, 0, a.config)
    IN  [ status |-> "ok",
          t |-> [out EXCEPT !.data =
                    Vec([f \in 1..out.size |->
                            static_dot(a, t, cols, (f - 1) \div cols, (f - 1) % cols, 0, ub)],
                        out.size)],
          oob |-> /\ rows > 0 /\ cols > 0 /\ a.shape[1] > 0
                  /\ \/ cols * (rows - 1) + a.shape[1] - 1 >= a.size
                     \/ (a.shape[1] - 1) * cols + cols - 1 >= t.size ]

(***************************************************************************)
(* The Strassen kernel.                                                    *)
(***************************************************************************)
MinBlock == 4       \* the extent at or below which strassen_matmul multiplies directly
MaxDepth == 3       \* recursion levels the model follows before giving up

\* A slip in strassen_split: the extents not halved.
strassen_split_no_halving(t) ==
    LET rows         == t.shape[1]
        columns      == t.shape[2]
        half_rows    == rows
        half_columns == columns
    IN  IF t.ndim > 2 THEN [status |-> "runtime_error"]
        ELSE [ status |-> "ok",
               a |-> ViewOf(t, FALSE, 0, half_rows, 0, half_columns),
               b |-> ViewOf(t, FALSE, 0, half_rows, half_columns, columns),
               c |-> ViewOf(t, FALSE, half_rows, rows, 0, half_columns),
               d |-> ViewOf(t, FALSE, half_rows, rows, half_columns, columns) ]

\* strassen_split(t).  t is passed by value: the four views point into the buffer
\* of the parameter's copy, which is destroyed when strassen_split returns, so the
\* caller receives them with their owner gone.  slice throws for rank > 2.
strassen_split(t) ==
    LET rows         == t.shape[1]
        columns      == t.shape[2]
        half_rows    == rows \div 2
        half_columns == columns \div 2
    IN  IF t.ndim > 2 THEN [status |-> "runtime_error"]
        ELSE [ status |-> "ok",
               a |-> ViewOf(t, FALSE, 0, half_rows, 0, half_columns),
               b |-> ViewOf(t, FALSE, 0, half_rows, half_columns, columns),
               c |-> ViewOf(t, FALSE, half_rows, rows, 0, half_columns),
               d |-> ViewOf(t, FALSE, half_rows, rows, half_columns, columns) ]

\* buf.add(a, b), buf.sub(a, b), buf.eq(view) on a scratch tensor buf: the loops run
\* over buf's own shape and store through buf.index({i, j}).
buf_add(buf, va, vb, ub) ==
    Only({ [x EXCEPT !.data = Vec([f \in 1..x.size |->
                VRead(va, (f - 1) \div x.shape[2], (f - 1) % x.shape[2], ub)
                  + VRead(vb, (f - 1) \div x.shape[2], (f - 1) % x.shape[2], ub)],
                x.size)] : x \in {buf} })

buf_sub(buf, va, vb, ub) ==
    Only({ [x EXCEPT !.data = Vec([f \in 1..x.size |->
                VRead(va, (f - 1) \div x.shape[2], (f - 1) % x.shape[2], ub)
                  - VRead(vb, (f - 1) \div x.shape[2], (f - 1) % x.shape[2], ub)],
                x.size)] : x \in {buf} })

buf_eq(buf, va, ub) ==
    Only({ [x EXCEPT !.data = Vec([f \in 1..x.size |->
                VRead(va, (f - 1) \div x.shape[2], (f - 1) % x.shape[2], ub)],
                x.size)] : x \in {buf} })

\* Whether a loop over buf's shape reads the view outside the buffer it points into.
buf_out(buf, view) ==
    /\ buf.size > 0
    /\ VOut(view, buf.shape[1] - 1, buf.shape[2] - 1)

\* strassen_stack(c11, c12, c21, c22), called on self (whose config_ the result gets).
strassen_stack(self, c11, c12, c21, c22, ub) ==
    LET R   == c11.shape[1]
        C   == c11.shape[2]
        R2  == 2 * R
        C2  == 2 * C
        cell(f) ==
            LET i == (f - 1) \div C2
                j == (f - 1) % C2
            IN  IF i < R
                THEN IF j < C THEN VecRead(c11.data, i * C + j, ub)
                              ELSE VecRead(c12.data, i * C + (j - C), ub)
                ELSE IF j < C THEN VecRead(c21.data, (i - R) * C + j, ub)
                              ELSE VecRead(c22.data, (i - R) * C + (j - C), ub)
    IN  [ t   |-> [NTensor(<<R2, C2>>, 0, self.config) EXCEPT
                      !.data = Vec([f \in 1..R2 * C2 |-> cell(f)], R2 * C2)],
          oob |-> \E q \in {c11, c12, c21, c22} : R * C > q.size ]

\* r.add(y) and r.sub(y) on the result r of an earlier call of a chain such as
\* m1.add(m2).sub(m3): an exception thrown earlier is passed on.
then_add(r, y) == Only({ IF x.status # "ok" THEN x ELSE add(x.t, y) : x \in {r} })

then_sub(r, y) == Only({ IF x.status # "ok" THEN x ELSE sub(x.t, y) : x \in {r} })

\* The condition of the direct-multiply exit of strassen_matmul(A, B).
strassen_base(TA, TB) == TA.shape[1] <= MinBlock /\ TB.shape[2] <= MinBlock

\* The record of one call of strassen_matmul in the result's `calls`.
CallOf(TA, TB, level, kernel) ==
    [level |-> level, arows |-> TA.shape[1], acols |-> TA.shape[2],
     brows |-> TB.shape[1], bcols |-> TB.shape[2], kernel |-> kernel]

\* The result of a call of strassen_matmul that did not return a tensor.
Failed(status, depth, calls, dangling) ==
    [status |-> status, t |-> NoTensor, depth |-> depth, calls |-> calls,
     dangling |-> dangling, oob |-> FALSE]

RECURSIVE strassen_matmul(_, _, _, _, _)
\* self.strassen_matmul(A, B) at recursion level `level`.  The result records the
\* returned tensor, the deepest level reached, the kernel chosen at every level
\* (calls), and whether a view was read after its owner was destroyed (dangling)
\* or a buffer was read outside its bounds (oob).
strassen_matmul(self, TA, TB, ub, level) ==
    IF level > MaxDepth
    THEN Failed("depth_exceeded", level, {CallOf(TA, TB, level, "none")}, FALSE)
    ELSE IF strassen_base(TA, TB)
    THEN Only({ [status |-> "ok", t |-> r.t, depth |-> level,
                 calls |-> {CallOf(TA, TB, level, "static")},
                 dangling |-> FALSE, oob |-> r.oob] : r \in {static_matmul(TA, TB, ub)} })
    ELSE IF TA.ndim > 2 \/ TB.ndim > 2
    THEN \* strassen_split throws in slice
         Failed("runtime_error", level, {CallOf(TA, TB, level, "split")}, FALSE)
    ELSE
    Only({
    LET a == sp[1].a  b == sp[1].b  c == sp[1].c  d == sp[1].d
        e == sp[2].a  f == sp[2].b  g == sp[2].c  h == sp[2].d
        buf  == NTensor(<<a.v.shape[1], a.v.shape[2]>>, 0, self.config)
        here == CallOf(TA, TB, level, "split")
    IN
    Only({
    \* ms = <<m1, ..., m7>>, the seven recursive products
    LET deep == CHOOSE n \in {ms[k].depth : k \in 1..7} : \A k \in 1..7 : ms[k].depth <= n
        bad  == {k \in 1..7 : ms[k].status # "ok"}
        sub_calls == UNION {ms[k].calls : k \in 1..7}
    IN
    IF bad # {}
    THEN \* the first recursive call that fails ends this call
         Failed(ms[CHOOSE k \in bad : \A k2 \in bad : k <= k2].status,
                deep, {here} \cup sub_calls, buf.size > 0)
    ELSE
    Only({
    \* cs = <<c11, c12, c21, c22>>
    IF \E k \in 1..4 : cs[k].status # "ok"
    THEN Failed("runtime_error", deep, {here} \cup sub_calls, buf.size > 0)
    ELSE
    Only({
    [ status   |-> "ok",
      t        |-> st.t,
      depth    |-> deep,
      calls    |-> {here} \cup sub_calls,
      \* every element the scratch loops read comes through a view of a split
      dangling |-> buf.size > 0 \/ \E k \in 1..7 : ms[k].dangling,
      oob      |-> \/ st.oob
                   \/ \E k \in 1..7 : ms[k].oob
                   \/ \E v \in {a, b, c, d, e, f, g, h} : buf_out(buf, v) ]
    : st \in {strassen_stack(self, cs[1].t, cs[2].t, cs[3].t, cs[4].t, ub)} })
    : cs \in {<< then_add(then_sub(add(ms[1].t, ms[2].t), ms[3].t), ms[4].t),  \* c11
                 add(ms[5].t, ms[3].t),                                        \* c12
                 add(ms[6].t, ms[2].t),                                        \* c21
                 then_sub(then_sub(add(ms[5].t, ms[1].t), ms[6].t), ms[7].t)   \* c22
              >>} })
    : ms \in {<<
        \* m1: buf1.add(a, d); buf2.sub(e, h)
        strassen_matmul(self, buf_add(buf, a, d, ub), buf_sub(buf, e, h, ub), ub, level + 1),
        \* m2: buf2.eq(d); buf2.sub(g, e); buf1 still holds a + d
        strassen_matmul(self, buf_add(buf, a, d, ub),
                        buf_sub(buf_eq(buf, d, ub), g, e, ub), ub, level + 1),
        \* m3: buf1.add(a, b); buf2.eq(h)
        strassen_matmul(self, buf_add(buf, a, b, ub), buf_eq(buf, h, ub), ub, level + 1),
        \* m4: buf1.sub(b, d); buf2.add(g, h)
        strassen_matmul(self, buf_sub(buf, b, d, ub), buf_add(buf, g, h, ub), ub, level + 1),
        \* m5: buf1.eq(a); buf2.sub(f, h)
        strassen_matmul(self, buf_eq(buf, a, ub), buf_sub(buf, f, h, ub), ub, level + 1),
        \* m6: buf1.add(c, d); buf2.eq(e)
        strassen_matmul(self, buf_add(buf, c, d, ub), buf_eq(buf, e, ub), ub, level + 1),
        \* m7: buf1.sub(a, c); buf2.add(e, f)
        strassen_matmul(self, buf_sub(buf, a, c, ub), buf_add(buf, e, f, ub), ub, level + 1)
      >>} })
    : sp \in {<<strassen_split(TA), strassen_split(TB)>>} })

\* A slip in matmul: the threshold compared with <= instead of <.
matmul_at_most(a, t, ub) ==
    IF a.ndim = 2
    THEN IF a.size <= a.config.strassen_threshold
         THEN Only({ [entry |-> "static_matmul", status |-> "ok", t |-> r.t, depth |-> 0,
                      calls |-> {}, dangling |-> FALSE, oob |-> r.oob]
                     : r \in {static_matmul(a, t, ub)} })
         ELSE [entry |-> "strassen_matmul"] @@ strassen_matmul(a, a, t, ub, 0)
    ELSE [entry |-> "none"] @@ Failed("no_return", 0, {}, FALSE)

\* NTensor::matmul(NTensor t), called on a.  A tensor that is not of rank 2 runs
\* off the end of the function, which returns nothing defined.
matmul(a, t, ub) ==
    IF a.ndim = 2
    THEN IF a.size < a.config.strassen_threshold
         THEN Only({ [entry |-> "static_matmul", status |-> "ok", t |-> r.t, depth |-> 0,
                      calls |-> {}, dangling |-> FALSE, oob |-> r.oob]
                     : r \in {static_matmul(a, t, ub)} })
         ELSE [entry |-> "strassen_matmul"] @@ strassen_matmul(a, a, t, ub, 0)
    ELSE [entry |-> "none"] @@ Failed("no_return", 0, {}, FALSE)

(***************************************************************************)
(* Specification Spec: two tensors, built by the constructor and filled    *)
(* through index() as the client of main.cpp does, and one call of add,    *)
(* sub, matmul, static_matmul or strassen_matmul on them.                  *)
(***************************************************************************)
MaxDim == 5             \* extents 1..MaxDim, and the two sizes that recurse, below
LowThreshold == 9       \* the small strassen_threshold of the model
MainThreshold == 200000000  \* the threshold main.cpp configures
JunkVal == 77           \* a value an undefined read may produce

Dims == (1..MaxDim) \cup {2 * MinBlock, 2 * MinBlock + 2}

OpShapes == {<<r, c>> : r \in Dims, c \in Dims} \cup {<<2, 2, 2>>}

Thresholds == {LowThreshold, MainThreshold}

UBOutcomes ==
    { [keep |-> TRUE, junk |-> 0], [keep |-> FALSE, junk |-> 0],
      [keep |-> FALSE, junk |-> JunkVal] }

\* A tensor whose element at flat offset f has been set to start + f.
Ramp(shape, start, cfg) ==
    LET t == NTensor(shape, 0, cfg) IN
    [t EXCEPT !.data = Vec([f \in 1..t.size |-> start + f - 1], t.size)]

NoOp ==
    [op |-> "none", entry |-> "none", status |-> "none", t |-> NoTensor, depth |-> 0,
     calls |-> {}, dangling |-> FALSE, oob |-> FALSE]

Init ==
    /\ \E sa \in OpShapes, sb \in OpShapes, thr \in Thresholds :
        /\ A = Ramp(sa, 1, NTensorConfig(thr))
        /\ B = Ramp(sb, 5, NTensorConfig(thr))
    /\ res = NoOp
    /\ halted = FALSE

\* client: A.add(B)
Add ==
    /\ res.op = "none"
    /\ \E r \in {add(A, B)} :
        res' = [NoOp EXCEPT !.op = "add", !.status = r.status, !.t = r.t]
    /\ UNCHANGED <<A, B, halted>>

\* client: A.sub(B)
Sub ==
    /\ res.op = "none"
    /\ \E r \in {sub(A, B)} :
        res' = [NoOp EXCEPT !.op = "sub", !.status = r.status, !.t = r.t]
    /\ UNCHANGED <<A, B, halted>>

\* client: A.matmul(B)
Matmul ==
    /\ res.op = "none"
    /\ \E ub \in UBOutcomes :
        \E r \in {matmul(A, B, ub)} :
            /\ res' = [op |-> "matmul"] @@ r
            \* without a returned value the caller crashes, or goes on
            /\ halted' \in (IF r.status = "no_return" THEN BOOLEAN ELSE {FALSE})
    /\ UNCHANGED <<A, B>>

\* client: A.static_matmul(B)
StaticMatmul ==
    /\ res.op = "none"
    /\ A.ndim = 2
    /\ \E ub \in UBOutcomes :
        \E r \in {static_matmul(A, B, ub)} :
            res' = [NoOp EXCEPT !.op = "static_matmul", !.entry = "static_matmul",
                                !.status = r.status, !.t = r.t, !.oob = r.oob]
    /\ UNCHANGED <<A, B, halted>>

\* client: A.strassen_matmul(A, B)
StrassenMatmul ==
    /\ res.op = "none"
    /\ A.ndim = 2
    /\ \E ub \in UBOutcomes :
        res' = [op |-> "strassen_matmul", entry |-> "strassen_matmul"]
                    @@ strassen_matmul(A, A, B, ub, 0)
    /\ UNCHANGED <<A, B, halted>>

Next == Add \/ Sub \/ Matmul \/ StaticMatmul \/ StrassenMatmul

Spec == Init /\ [][Next]_vars

(***************************************************************************)
(* Properties of the arithmetic and of the matrix product.                 *)
(***************************************************************************)
IsMatmul == res.op \in {"matmul", "strassen_matmul"}

BothRank2 == A.ndim = 2 /\ B.ndim = 2

\* A is m x k and B is k x n.
Conformable == BothRank2 /\ A.shape[2] = B.shape[1]

\* A and B are N x N with N a power of two.
SquarePow2 ==
    /\ BothRank2
    /\ A.shape = B.shape
    /\ A.shape[1] = A.shape[2]
    /\ A.shape[1] \in {1, 2, 4, 8, 16}

RECURSIVE RefDot(_, _, _, _, _)
\* sum over p in [p0, k) of A[i][p] * B[p][j], of row-major A (m x k) and B (k x n)
RefDot(TA, TB, i, j, p0) ==
    IF p0 >= TA.shape[2] THEN 0
    ELSE TA.data[i * TA.shape[2] + p0 + 1] * TB.data[p0 * TB.shape[2] + j + 1]
            + RefDot(TA, TB, i, j, p0 + 1)

\* C1: for square N x N operands with N a power of two, strassen_matmul(A, B)
\* returns a tensor elementwise identical to A.static_matmul(B).
C1_StrassenEqualsDirect ==
    (res.op = "strassen_matmul" /\ SquarePow2) =>
        /\ res.status = "ok"
        /\ res.t = static_matmul(A, B, [keep |-> TRUE, junk |-> 0]).t

\* C2 as claimed: matmul on a rank-2 tensor whose element count equals
\* strassen_threshold takes the direct path; one element above, the Strassen path.
C2_AtThresholdDirect ==
    (res.op = "matmul" /\ A.ndim = 2) =>
        /\ A.size = A.config.strassen_threshold => res.entry = "static_matmul"
        /\ A.size = A.config.strassen_threshold + 1 => res.entry = "strassen_matmul"

\* C2 as amended: matmul on a rank-2 tensor takes the Strassen path when the element
\* count equals strassen_threshold, as it does when the count is above it; it takes
\* the direct path when the element count is below the threshold.
C2_AtThresholdStrassen ==
    (res.op = "matmul" /\ A.ndim = 2) =>
        /\ A.size = A.config.strassen_threshold => res.entry = "strassen_matmul"
        /\ A.size > A.config.strassen_threshold => res.entry = "strassen_matmul"
        /\ A.size < A.config.strassen_threshold => res.entry = "static_matmul"

\* matmul has been called on a 3 x 3 tensor whose threshold is its element count.
C2_Witness ==
    /\ res.op = "matmul"
    /\ A.shape = <<3, 3>>
    /\ A.size = A.config.strassen_threshold
    /\ res.entry = "strassen_matmul"

\* C3: matmul fails with an error and returns no tensor when an operand is not of
\* rank 2 or when A's column count differs from B's row count, and reads no buffer
\* out of bounds.
C3_MatmulRejects ==
    (res.op = "matmul" /\ (~BothRank2 \/ A.shape[2] # B.shape[1])) =>
        /\ res.status = "runtime_error"
        /\ res.t = NoTensor
        /\ ~res.oob

\* C4: for A of shape m x k and B of shape k x n, static_matmul returns a tensor of
\* shape m x n with out[i][j] = sum over p of A[i][p] * B[p][j], and reads no element
\* outside either operand's buffer.
C4_DirectKernel ==
    (res.op = "static_matmul" /\ Conformable) =>
        /\ res.status = "ok"
        /\ res.t.shape = <<A.shape[1], B.shape[2]>>
        /\ res.t.size = A.shape[1] * B.shape[2]
        /\ \A i \in 0..A.shape[1] - 1, j \in 0..B.shape[2] - 1 :
              res.t.data[i * B.shape[2] + j + 1] = RefDot(A, B, i, j, 0)
        /\ ~res.oob

\* C7: add and sub on tensors whose shapes differ fail with the shape-mismatch error
\* and return no tensor; both operands are as they were built.
C7_ShapeMismatchGuard ==
    (res.op \in {"add", "sub"} /\ A.shape # B.shape) =>
        /\ res.status = "runtime_error"
        /\ res.t = NoTensor
        /\ A = Ramp(A.shape, 1, A.config)
        /\ B = Ramp(B.shape, 5, B.config)

\* add has been called on a 2 x 3 and a 3 x 2 tensor (equal element counts).
C7_Witness ==
    /\ res.op = "add"
    /\ A.shape = <<2, 3>>
    /\ B.shape = <<3, 2>>
    /\ res.status = "runtime_error"

\* C8: at every level of the recursion, a product whose row extent or column extent
\* is at most 4 is computed by the direct kernel, without a split.
C8_BaseCaseEitherExtent ==
    (IsMatmul /\ Conformable) =>
        \A e \in res.calls :
            (e.arows <= MinBlock \/ e.bcols <= MinBlock) => e.kernel = "static"

\* C9: no view produced by strassen_split is read after the tensor it was sliced
\* from has been destroyed.
C9_ViewsReadWhileOwnerAlive ==
    (IsMatmul /\ Conformable) => ~res.dangling

RECURSIVE Halvings(_)
\* How many times n is halved before it is at most MinBlock.
Halvings(n) == IF n <= MinBlock THEN 0 ELSE 1 + Halvings(n \div 2)

MaxOf(S) == CHOOSE n \in S : \A k \in S : k <= n

\* C10: for rank-2 operands of any extents the recursion of strassen_matmul ends in
\* the direct-multiply base case and the call returns; the depth is at most one
\* more than the number of halvings that bring the largest extent down to 4.
C10_RecursionBounded ==
    (IsMatmul /\ BothRank2) =>
        /\ res.status = "ok"
        /\ res.depth <= 1 + Halvings(MaxOf({A.shape[1], A.shape[2], B.shape[1], B.shape[2]}))
        /\ res.entry = "strassen_matmul" =>
              /\ \E e \in res.calls : e.level = res.depth /\ e.kernel = "static"
              /\ \A e \in res.calls : e.kernel \in {"static", "split"}
              /\ \A e \in res.calls : e.kernel = "split" => e.level < res.depth

\* A 10 x 3 by 3 x 5 product has recursed two levels deep, through odd and
\* extent-1 blocks, and returned.
C10_Witness ==
    /\ res.op = "strassen_matmul"
    /\ A.shape = <<10, 3>>
    /\ B.shape = <<3, 5>>
    /\ res.depth = 2
    /\ res.status = "ok"
    /\ \E e \in res.calls : e.level = 1 /\ e.arows = 5 /\ e.acols = 1 /\ e.kernel = "split"

(***************************************************************************)
(* Properties of indexing.                                                 *)
(***************************************************************************)
ValidCoord(t, p) == Len(p) = t.ndim /\ \A i \in 1..t.ndim : p[i] < t.shape[i]

ValidCoords(t) == {p \in SeqsOver(0..MaxExt, t.ndim) : ValidCoord(t, p)}

\* The element a read index(p) returns.
ReadAt(t, data, p) == data[index(t, p).off + 1]

\* C5: after index(p) = x at a valid coordinate p, reading index(p) gives x and
\* every other valid coordinate reads what it read before the write; the stride
\* mapping sends distinct valid coordinates to distinct offsets below size.
C5_IndexRoundTrip ==
    (res.op = "index_write" /\ ValidCoord(A, res.args)) =>
        /\ res.status = "ok"
        /\ index(A, res.args).status = "ok"
        /\ ReadAt(A, A.data, res.args) = res.x
        /\ \A q \in ValidCoords(A) :
              /\ flat_pos(A, q) < A.size
              /\ q # res.args =>
                    /\ flat_pos(A, q) # flat_pos(A, res.args)
                    /\ index(A, q).status = "ok"
                    /\ ReadAt(A, A.data, q) = ReadAt(A, res.before, q)

\* A write at the last element of a 2 x 3 x 2 tensor has happened.
C5_Witness ==
    /\ res.op = "index_write"
    /\ A.shape = <<2, 3, 2>>
    /\ res.args = <<1, 2, 1>>
    /\ res.status = "ok"
    /\ A.data[12] = 2
    /\ \A f \in 1..11 : A.data[f] = 0

InBoundsSlice(t, a) ==
    /\ a[1] <= a[2] /\ a[2] <= t.shape[1]
    /\ a[3] <= a[4] /\ a[4] <= t.shape[2]

\* C6: a write through v.index(i, j) of an in-bounds slice v = P.slice(r0, r1, c0, c1)
\* of a rank-2 tensor P, with i < r1 - r0 and j < c1 - c0, changes the parent
\* element P[r0 + i][c0 + j] and no other element of P.
C6_ViewWriteExact ==
    (res.op = "view_write" /\ A.ndim = 2 /\ InBoundsSlice(A, res.args)) =>
        LET target == <<res.args[1] + res.args[5], res.args[3] + res.args[6]>> IN
        /\ res.status = "ok"
        /\ ValidCoord(A, target)
        /\ ReadAt(A, A.data, target) = res.x
        /\ \A q \in ValidCoords(A) :
              q # target => ReadAt(A, A.data, q) = ReadAt(A, res.before, q)

\* Element (1, 1) of the top-left 2 x 2 view of a 4 x 4 tensor has been written.
C6_Witness ==
    /\ res.op = "view_write"
    /\ A.shape = <<4, 4>>
    /\ res.args = <<0, 2, 0, 2, 1, 1>>
    /\ res.status = "ok"
    /\ A.data[6] = 1
    /\ \A f \in 1..16 : f # 6 => A.data[f] = 0

====
